---- MODULE Spec2Model ----
(***************************************************************************)
(* Model of app/server.js: the four file-lifecycle request handlers        *)
(* (presign-upload, complete, get-metadata, share), the metadata table     *)
(* (DynamoDB) and the object store (S3) they call.                         *)
(*                                                                         *)
(* A request is a process.  Its program counter names the store call the   *)
(* handler is suspended on (the `await`): the store has processed the call *)
(* and the handler has not resumed yet.  One action is the synchronous     *)
(* code of the handler from one such point up to its next store call,      *)
(* together with that call's effect at the store.  A call that fails       *)
(* leaves the store unchanged and ends the request in the catch-all error  *)
(* responder.                                                              *)
(*                                                                         *)
(* JavaScript values whose type matters are tagged records (Undef, Null,   *)
(* Num, Str); strings the code inspects are sequences of one-character     *)
(* strings.                                                                *)
(***************************************************************************)
EXTENDS Integers, Sequences, FiniteSets, TLC

VARIABLES
  table,        \* metadata table: fileId -> item (attribute name -> value)
  objects,      \* object store: key -> what a head of the object reports
  now,          \* the wall clock, in milliseconds
  fresh,        \* identifiers uuidv4 has not generated yet
  uploadUrls,   \* upload URLs handed out in 200 responses
  pc,           \* per request in flight (in arrival order): "idle", the await it is suspended on, or "done"
  op,           \* per request: the route it was dispatched to
  req,          \* per request: what the client sent (req.body or req.params)
  locals,       \* per request: the handler's live local variables
  res,          \* per request: the response sent
  calls,        \* per request: the store calls issued so far
  afterOk,      \* per request: it arrived after a 200 complete response for its fileId
  afterFail,    \* per request: it arrived after a failed head call for its fileId
  shareUpdates, \* per fileId: share updates the table has applied
  completedOk,  \* fileIds for which a complete request has responded 200
  headFailed    \* fileIds of the records still UPLOADING for which the head call of a
                \* complete request has failed

reqVars == <<pc, op, req, locals, res, calls, afterOk, afterFail>>
vars == <<table, objects, now, fresh, uploadUrls, pc, op, req, locals, res, calls, afterOk,
          afterFail, shareUpdates, completedOk, headFailed>>

-----------------------------------------------------------------------------
(* Bounds *)

MaxCreated == 2     \* files created in SpecCreate
MaxReqs == 2        \* requests in flight at the same time
MaxDownloads == 2   \* share requests admitted per file
MaxLen == 3         \* characters of the file names enumerated in SpecNames

(* Configuration *)

PRESIGN_EXPIRES_SECONDS == 3600
S3_BUCKET == "bucket"

-----------------------------------------------------------------------------
(* JavaScript values *)

Undef == [type |-> "undefined"]
Null == [type |-> "null"]
Num(n) == [type |-> "number", num |-> n]
Str(s) == [type |-> "string", str |-> s]

\* a || b
CoalesceFalsy(a, b) ==
  IF \/ a.type \in {"undefined", "null"}
     \/ (a.type = "number" /\ a.num = 0)
     \/ (a.type = "string" /\ a.str = <<>>)
  THEN b ELSE a

\* a ?? b
Coalesce(a, b) == IF a.type \in {"undefined", "null"} THEN b ELSE a

Whitespace == {" "}
\* \w: letters, digits and the underscore
WordChars ==
  {"a", "b", "c", "d", "e", "f", "g", "h", "i", "j", "k", "l", "m", "n", "o", "p", "q", "r",
   "s", "t", "u", "v", "w", "x", "y", "z",
   "A", "B", "C", "D", "E", "F", "G", "H", "I", "J", "K", "L", "M", "N", "O", "P", "Q", "R",
   "S", "T", "U", "V", "W", "X", "Y", "Z",
   "0", "1", "2", "3", "4", "5", "6", "7", "8", "9", "_"}
SafeChars == WordChars \cup {".", "-"}

RECURSIVE TrimStart(_)
TrimStart(s) ==
  IF s = <<>> THEN <<>>
  ELSE IF Head(s) \in Whitespace THEN TrimStart(Tail(s)) ELSE s

RECURSIVE TrimEnd(_)
TrimEnd(s) ==
  IF s = <<>> THEN <<>>
  ELSE IF s[Len(s)] \in Whitespace THEN TrimEnd(SubSeq(s, 1, Len(s) - 1)) ELSE s

Trim(s) == TrimEnd(TrimStart(s))

\* a requireString that accepts a whitespace-only string
requireStringUntrimmed(val, name) ==
  IF val.type # "string" \/ val.str = <<>>
  THEN [ok |-> FALSE, err |-> [message |-> name \o " is required", statusCode |-> Num(400)]]
  ELSE [ok |-> TRUE, val |-> Trim(val.str)]

\* requireString: [ok |-> TRUE, val |-> trimmed] or [ok |-> FALSE, err |-> thrown error]
requireString(val, name) ==
  IF val.type # "string" \/ val.str = <<>> \/ Trim(val.str) = <<>>
  THEN [ok |-> FALSE, err |-> [message |-> name \o " is required", statusCode |-> Num(400)]]
  ELSE [ok |-> TRUE, val |-> Trim(val.str)]

RECURSIVE DropUnsafe(_)
DropUnsafe(s) ==
  IF s = <<>> THEN <<>>
  ELSE IF Head(s) \in SafeChars THEN s ELSE DropUnsafe(Tail(s))

\* a replacement without the + of the pattern: every unsafe character becomes a "_"
safeNameOneForOne(s) == [i \in 1..Len(s) |-> IF s[i] \in SafeChars THEN s[i] ELSE "_"]

\* originalFilename.replace(/[^\w.\-]+/g, "_")
RECURSIVE safeNameOf(_)
safeNameOf(s) ==
  IF s = <<>> THEN <<>>
  ELSE IF Head(s) \in SafeChars THEN <<Head(s)>> \o safeNameOf(Tail(s))
  ELSE <<"_">> \o safeNameOf(DropUnsafe(Tail(s)))

\* `uploads/${fileId}/${safeName}`
s3KeyOf(fileId, safeName) == <<"uploads", "/">> \o fileId \o <<"/">> \o safeName

\* now.toISOString()
toISOString(ms) == [iso |-> ms]

\* Math.floor(Date.now() / 1000) + PRESIGN_EXPIRES_SECONDS
expiresAtOf(ms) == (ms \div 1000) + PRESIGN_EXPIRES_SECONDS

\* an error responder that answers {"message": ...}
ErrorHandlerMessageKey(err) ==
  [status |-> IF err.statusCode.type = "number" /\ err.statusCode.num # 0
              THEN err.statusCode.num ELSE 500,
   body |-> [message |-> IF err.message # "" THEN err.message ELSE "Internal Server Error"]]

\* the catch-all error responder
ErrorHandler(err) ==
  [status |-> IF err.statusCode.type = "number" /\ err.statusCode.num # 0
              THEN err.statusCode.num ELSE 500,
   body |-> [error |-> IF err.message # "" THEN err.message ELSE "Internal Server Error"]]

\* a store error that carries a statusCode of its own
UpstreamErrorNotFound == [message |-> "upstream failure", statusCode |-> Num(404)]

\* an error thrown by a failed object-store or metadata-store call
UpstreamError == [message |-> "upstream failure", statusCode |-> Undef]

\* the errors express.json() hands to next(): malformed JSON, a body over the size
\* limit, an unsupported charset or content encoding
BodyParserErrors ==
  {[message |-> "Unexpected token", statusCode |-> Num(400)],
   [message |-> "request entity too large", statusCode |-> Num(413)],
   [message |-> "unsupported charset", statusCode |-> Num(415)]}

\* a request whose body express.json() could not parse
Unparsed == [unparsed |-> TRUE]

-----------------------------------------------------------------------------
(* Domains *)

\* identifiers are written with one character each
Digit == <<"1", "2", "3", "4">>
IdsUpTo(n) == {<<Digit[k]>> : k \in 1..n}
TheFile == <<Digit[1]>>
FileIds == IdsUpTo(MaxCreated)
Reqs == 1..MaxReqs

NoResponse == [status |-> 0]
NoRequest == <<>>

\* request bodies / path parameters the clients send
FilenameInputs == {Undef, Str(<<" ">>), Str(<<" ", "a", " ", "(", "b">>)}
ContentTypeInputs == {Num(1), Str(<<"a", " ">>)}
\* values requireString refuses: missing, null, not a string, empty, whitespace only
BlankValues == {Undef, Null, Num(1), Str(<<>>), Str(<<" ">>), Str(<<" ", " ">>)}
FileIdInputs == {Null, Str(<<>>)} \cup {Str(f) : f \in FileIds}

\* file names of SpecNames: every short string over NameChars, and a longer example
NameChars == {"a", " ", "(", ".", "_"}
ExampleFilename ==
  <<"m", "y", " ", "f", "i", "l", "e", " ", "(", "1", ")", ".", "p", "d", "f">>
NameInputs ==
  {Str(s) : s \in UNION {[1..n -> NameChars] : n \in 0..MaxLen}} \cup {Str(ExampleFilename)}
NameContentType == Str(<<"a">>)

\* what the object store can report for an uploaded object: an empty object with a
\* content type, and an object for which it reports neither
ObjectHeads == {[ContentLength |-> Num(0), ContentType |-> Str(<<"b">>)],
                [ContentLength |-> Undef, ContentType |-> Undef]}

Present(f) == f \in DOMAIN table

-----------------------------------------------------------------------------
(* Metadata store (DynamoDB document client).  Each command is one atomic      *)
(* step of the table and a read returns the latest write.                      *)

\* GetCommand: the item, or no Item
ddbGet(f) == IF Present(f) THEN [Item |-> table[f]] ELSE [none |-> TRUE]

HasItem(meta) == "Item" \in DOMAIN meta

\* meta.Item.status, undefined when the attribute is missing
statusOf(item) == IF "status" \in DOMAIN item THEN item.status ELSE "undefined"

\* PutCommand: replaces whatever is stored under the key
ddbPut(item) == (item.fileId :> item) @@ table

\* a write that stores the attributes as the whole item (a PutCommand in place of the update)
ddbSetReplacing(f, attrs) == (f :> (attrs @@ [fileId |-> f])) @@ table

\* UpdateCommand with a SET expression: sets the attributes, creating the item if absent
ddbSet(f, attrs) ==
  IF Present(f) THEN [table EXCEPT ![f] = attrs @@ @]
  ELSE (f :> (attrs @@ [fileId |-> f])) @@ table

\* the counter computed by the handler from the item it read: SET downloadCount = :n
incrementedCountStale(f, meta) == meta.Item.downloadCount + 1

\* if_not_exists(downloadCount, :zero) + :one, evaluated by the store
incrementedCount(f, meta) ==
  (IF Present(f) /\ "downloadCount" \in DOMAIN table[f] THEN table[f].downloadCount ELSE 0) + 1

\* an identifier generator that can repeat the fileId of a stored record
uuidv4Colliding == fresh \cup DOMAIN table

\* uuidv4(): an identifier never generated before
uuidv4 == fresh

\* an initial record that already carries a (null) sizeBytes attribute
presignItemSized(fileId, s3Key, originalFilename, contentType, createdAt, expiresAt) ==
  [fileId |-> fileId,
   s3Bucket |-> S3_BUCKET,
   s3Key |-> s3Key,
   originalFilename |-> originalFilename,
   contentType |-> Str(contentType),
   status |-> "UPLOADING",
   createdAt |-> createdAt,
   expiresAt |-> expiresAt,
   sizeBytes |-> Null,
   downloadCount |-> 0]

\* the Item of the PutCommand of presign-upload
presignItem(fileId, s3Key, originalFilename, contentType, createdAt, expiresAt) ==
  [fileId |-> fileId,
   s3Bucket |-> S3_BUCKET,
   s3Key |-> s3Key,
   originalFilename |-> originalFilename,
   contentType |-> Str(contentType),
   status |-> "UPLOADING",
   createdAt |-> createdAt,
   expiresAt |-> expiresAt,
   downloadCount |-> 0]

\* a handler that puts the record before it signs the URL
writtenBeforeSigningPut(item) == ddbPut(item)

\* presign-upload: the table when getSignedUrl is called, the PutCommand coming after it
writtenBeforeSigning(item) == table

\* complete without its status check
canCompleteAlways(item) == TRUE

\* complete: meta.Item.status !== "UPLOADING" is refused
canComplete(item) == statusOf(item) = "UPLOADING"

\* an UpdateCommand with ConditionExpression "#s = :uploading"
completeConditionUploading(f) == Present(f) /\ statusOf(table[f]) = "UPLOADING"

\* complete: the UpdateCommand carries no ConditionExpression
completeCondition(f) == TRUE

\* complete: SET #s = :ready, sizeBytes = :sz, contentType = :ct
completeAttrs(sizeBytes, storedContentType) ==
  [status |-> "READY", sizeBytes |-> sizeBytes, contentType |-> storedContentType]

\* share without its status check
canShareAlways(item) == TRUE

\* share: meta.Item.status !== "READY" is refused
canShare(item) == statusOf(item) = "READY"

\* a response that leaves the storage location out
metadataBodyPartial(item) == [k \in DOMAIN item \ {"s3Bucket", "s3Key"} |-> item[k]]

\* get-metadata: res.json(meta.Item)
metadataBody(item) == item

\* a return without a response
completeNotFoundSilent == [status |-> 0]

\* a missing record reported as a bad request
completeNotFoundAs400 == [status |-> 400, body |-> [error |-> "fileId not found"]]

completeNotFound == [status |-> 404, body |-> [error |-> "fileId not found"]]
metadataNotFound == [status |-> 404, body |-> [error |-> "not found"]]
shareNotFound == [status |-> 404, body |-> [error |-> "not found"]]

\* Date.now(): the clock has moved on at the next reading
Elapsed == now + 500

-----------------------------------------------------------------------------
(* Request bookkeeping *)

\* res.status(..).json(..): the handler returns, its locals are gone
Respond(r, response) ==
  /\ pc' = [pc EXCEPT ![r] = "done"]
  /\ res' = [res EXCEPT ![r] = response]
  /\ locals' = [locals EXCEPT ![r] = <<>>]

\* the handler is suspended on the call named by label, holding the locals it still uses
Await(r, label, live) ==
  /\ pc' = [pc EXCEPT ![r] = label]
  /\ locals' = [locals EXCEPT ![r] = live]
  /\ UNCHANGED res

Called(r, names) == calls' = [calls EXCEPT ![r] = @ \o names]

\* no handler is in the middle of its turn of the event loop: a handler that has
\* sent its response returns (Finish) before any other event is processed
Quiet == \A q \in Reqs : pc[q] # "done"

\* a new request arrives and is dispatched to its route
Dispatch(r, route, input) ==
  /\ Quiet
  /\ pc[r] = "idle"
  /\ \A q \in Reqs : q < r => pc[q] # "idle"
  /\ op' = [op EXCEPT ![r] = route]
  /\ req' = [req EXCEPT ![r] = input]

\* the call the handler of route is suspended on has returned: the handler resumes
Resume(r, route, label) ==
  /\ Quiet
  /\ op[r] = route
  /\ pc[r] = label

\* the calls of a handler's first step
Began(r, names) == calls' = [calls EXCEPT ![r] = names]

NotAfterOk(r) ==
  /\ afterOk' = [afterOk EXCEPT ![r] = FALSE]
  /\ afterFail' = [afterFail EXCEPT ![r] = FALSE]

\* share requests in flight for f plus links already counted
ShareLoad(f) ==
  (IF Present(f) /\ "downloadCount" \in DOMAIN table[f] THEN table[f].downloadCount ELSE 0)
  + Cardinality({q \in Reqs : op[q] = "share" /\ pc[q] \in {"get", "update"}
                              /\ locals[q].fileId = f})

-----------------------------------------------------------------------------
(* Spec follows the records of one file through every handler: uuidv4 has one   *)
(* identifier to give (TheFile); the other identifiers clients name have no    *)
(* record.  SpecCreate (below) has MaxCreated files.                            *)

Init ==
  /\ table = <<>>
  /\ objects = <<>>
  /\ now = 0
  /\ fresh = {TheFile}
  /\ uploadUrls = {}
  /\ pc = [r \in Reqs |-> "idle"]
  /\ op = [r \in Reqs |-> "none"]
  /\ req = [r \in Reqs |-> NoRequest]
  /\ locals = [r \in Reqs |-> <<>>]
  /\ res = [r \in Reqs |-> NoResponse]
  /\ calls = [r \in Reqs |-> <<>>]
  /\ afterOk = [r \in Reqs |-> FALSE]
  /\ afterFail = [r \in Reqs |-> FALSE]
  /\ shareUpdates = [f \in FileIds |-> 0]
  /\ completedOk = {}
  /\ headFailed = {}

-----------------------------------------------------------------------------
(* app.use(express.json()) *)

\* the request arrives and its body cannot be parsed: no route handler runs, the error
\* goes to the catch-all error responder
JsonBodyError(r, err) ==
  /\ Dispatch(r, "express.json", Unparsed)
  /\ Respond(r, ErrorHandler(err))
  /\ Began(r, <<>>)
  /\ NotAfterOk(r)
  /\ UNCHANGED <<table, objects, now, fresh, uploadUrls, shareUpdates, completedOk, headFailed>>

-----------------------------------------------------------------------------
(* POST /files/presign-upload *)

\* the request arrives: validation, fileId, key, timestamps, URL signing, PutCommand
PresignPut(r, body) ==
  /\ Dispatch(r, "presign", body)
  /\ LET fn == requireString(body.originalFilename, "originalFilename")
         ct == requireString(body.contentType, "contentType")
     IN IF ~fn.ok \/ ~ct.ok
        THEN /\ Respond(r, ErrorHandler(IF ~fn.ok THEN fn.err ELSE ct.err))
             /\ Began(r, <<>>)
             /\ UNCHANGED <<table, now, fresh>>
        ELSE \E fileId \in uuidv4 :
             LET s3Key == s3KeyOf(fileId, safeNameOf(fn.val))
                 createdAt == toISOString(now)
                 expiresAt == expiresAtOf(now)
                 uploadUrl == [method |-> "PUT", Bucket |-> S3_BUCKET, Key |-> s3Key,
                               ContentType |-> ct.val, expiresIn |-> PRESIGN_EXPIRES_SECONDS]
                 Item == presignItem(fileId, s3Key, fn.val, ct.val, createdAt, expiresAt)
             IN /\ fresh' = fresh \ {fileId}
                /\ now' = Elapsed
                /\ \/ \* getSignedUrl fails
                      /\ Began(r, <<"getSignedUrl">>)
                      /\ Respond(r, ErrorHandler(UpstreamError))
                      /\ table' = writtenBeforeSigning(Item)
                   \/ \* the put fails
                      /\ Began(r, <<"getSignedUrl", "ddb.Put">>)
                      /\ Respond(r, ErrorHandler(UpstreamError))
                      /\ UNCHANGED table
                   \/ /\ Began(r, <<"getSignedUrl", "ddb.Put">>)
                      /\ table' = ddbPut(Item)
                      /\ Await(r, "put", [fileId |-> fileId, uploadUrl |-> uploadUrl,
                                          s3Key |-> s3Key, expiresAt |-> expiresAt])
  /\ NotAfterOk(r)
  /\ UNCHANGED <<objects, uploadUrls, shareUpdates, completedOk, headFailed>>

\* the put has returned: res.json
PresignRespond(r) ==
  /\ Resume(r, "presign", "put")
  /\ Respond(r, [status |-> 200,
                 body |-> [fileId |-> locals[r].fileId, uploadUrl |-> locals[r].uploadUrl,
                           s3Key |-> locals[r].s3Key, expiresAt |-> locals[r].expiresAt]])
  /\ uploadUrls' = uploadUrls \cup {locals[r].uploadUrl}
  /\ UNCHANGED <<table, objects, now, fresh, op, req, calls, afterOk, afterFail, shareUpdates,
                 completedOk, headFailed>>

-----------------------------------------------------------------------------
(* POST /files/complete *)

\* the request arrives: validation, GetCommand
CompleteGet(r, body) ==
  /\ Dispatch(r, "complete", body)
  /\ LET id == requireString(body.fileId, "fileId")
     IN IF ~id.ok
        THEN /\ Respond(r, ErrorHandler(id.err))
             /\ Began(r, <<>>)
             /\ NotAfterOk(r)
        ELSE /\ Began(r, <<"ddb.Get">>)
             /\ afterOk' = [afterOk EXCEPT ![r] = id.val \in completedOk]
             /\ afterFail' = [afterFail EXCEPT ![r] = id.val \in headFailed]
             /\ \/ Await(r, "get", [fileId |-> id.val, meta |-> ddbGet(id.val)])
                \/ Respond(r, ErrorHandler(UpstreamError))
  /\ UNCHANGED <<table, objects, now, fresh, uploadUrls, shareUpdates, completedOk, headFailed>>

\* the get has returned: existence and status checks, HeadObjectCommand
CompleteHead(r) ==
  /\ Resume(r, "complete", "get")
  /\ LET meta == locals[r].meta
     IN IF ~HasItem(meta)
        THEN /\ Respond(r, completeNotFound)
             /\ UNCHANGED <<calls, headFailed>>
        ELSE IF ~canComplete(meta.Item)
        THEN /\ Respond(r, [status |-> 400,
                            body |-> [error |-> "invalid status: " \o statusOf(meta.Item)]])
             /\ UNCHANGED <<calls, headFailed>>
        ELSE /\ Called(r, <<"s3.Head">>)
             /\ \/ /\ meta.Item.s3Key \in DOMAIN objects
                   /\ Await(r, "head", [fileId |-> locals[r].fileId, meta |-> meta,
                                        head |-> objects[meta.Item.s3Key]])
                   /\ UNCHANGED headFailed
                \/ \* the object is absent, or the service fails
                   /\ Respond(r, ErrorHandler(UpstreamError))
                   /\ headFailed' = IF statusOf(table[locals[r].fileId]) = "UPLOADING"
                                    THEN headFailed \cup {locals[r].fileId} ELSE headFailed
  /\ UNCHANGED <<table, objects, now, fresh, uploadUrls, op, req, afterOk, afterFail, shareUpdates,
                 completedOk>>

\* the head has returned: sizeBytes, storedContentType, UpdateCommand
CompleteUpdate(r) ==
  /\ Resume(r, "complete", "head")
  /\ Called(r, <<"ddb.Update">>)
  /\ LET sizeBytes == Coalesce(locals[r].head.ContentLength, Null)
         storedContentType == Coalesce(locals[r].head.ContentType,
                                       locals[r].meta.Item.contentType)
     IN \/ /\ completeCondition(locals[r].fileId)
           /\ table' = ddbSet(locals[r].fileId, completeAttrs(sizeBytes, storedContentType))
           /\ Await(r, "update", [fileId |-> locals[r].fileId, sizeBytes |-> sizeBytes,
                                  storedContentType |-> storedContentType])
           /\ headFailed' = headFailed \ {locals[r].fileId}
        \/ /\ Respond(r, ErrorHandler(UpstreamError))
           /\ UNCHANGED <<table, headFailed>>
  /\ UNCHANGED <<objects, now, fresh, uploadUrls, op, req, afterOk, afterFail, shareUpdates,
                 completedOk>>

\* the update has returned: res.json
CompleteRespond(r) ==
  /\ Resume(r, "complete", "update")
  /\ Respond(r, [status |-> 200,
                 body |-> [ok |-> TRUE, fileId |-> locals[r].fileId,
                           sizeBytes |-> locals[r].sizeBytes,
                           contentType |-> locals[r].storedContentType]])
  /\ completedOk' = completedOk \cup {locals[r].fileId}
  /\ UNCHANGED <<table, objects, now, fresh, uploadUrls, op, req, calls, afterOk, afterFail,
                 shareUpdates, headFailed>>

-----------------------------------------------------------------------------
(* GET /files/:fileId *)

\* the request arrives: validation, GetCommand
MetadataGet(r, params) ==
  /\ Dispatch(r, "metadata", params)
  /\ LET id == requireString(params.fileId, "fileId")
     IN IF ~id.ok
        THEN /\ Respond(r, ErrorHandler(id.err))
             /\ Began(r, <<>>)
        ELSE /\ Began(r, <<"ddb.Get">>)
             /\ \/ Await(r, "get", [fileId |-> id.val, meta |-> ddbGet(id.val)])
                \/ Respond(r, ErrorHandler(UpstreamError))
  /\ NotAfterOk(r)
  /\ UNCHANGED <<table, objects, now, fresh, uploadUrls, shareUpdates, completedOk, headFailed>>

\* the get has returned: 404 or the item
MetadataRespond(r) ==
  /\ Resume(r, "metadata", "get")
  /\ LET meta == locals[r].meta
     IN IF ~HasItem(meta)
        THEN Respond(r, metadataNotFound)
        ELSE Respond(r, [status |-> 200, body |-> metadataBody(meta.Item)])
  /\ UNCHANGED <<table, objects, now, fresh, uploadUrls, op, req, calls, afterOk, afterFail,
                 shareUpdates, completedOk, headFailed>>

-----------------------------------------------------------------------------
(* POST /files/:fileId/share *)

\* the request arrives: validation, GetCommand
ShareGet(r, params) ==
  /\ Dispatch(r, "share", params)
  /\ LET id == requireString(params.fileId, "fileId")
     IN IF ~id.ok
        THEN /\ Respond(r, ErrorHandler(id.err))
             /\ Began(r, <<>>)
        ELSE /\ ShareLoad(id.val) < MaxDownloads
             /\ Began(r, <<"ddb.Get">>)
             /\ \/ Await(r, "get", [fileId |-> id.val, meta |-> ddbGet(id.val)])
                \/ Respond(r, ErrorHandler(UpstreamError))
  /\ NotAfterOk(r)
  /\ UNCHANGED <<table, objects, now, fresh, uploadUrls, shareUpdates, completedOk, headFailed>>

\* the get has returned: existence and status checks, URL signing, UpdateCommand
ShareUpdate(r) ==
  /\ Resume(r, "share", "get")
  /\ LET meta == locals[r].meta
         fileId == locals[r].fileId
     IN IF ~HasItem(meta)
        THEN /\ Respond(r, shareNotFound)
             /\ UNCHANGED <<table, calls, shareUpdates>>
        ELSE IF ~canShare(meta.Item)
        THEN /\ Respond(r, [status |-> 400,
                            body |-> [error |-> "not ready: " \o statusOf(meta.Item)]])
             /\ UNCHANGED <<table, calls, shareUpdates>>
        ELSE \/ \* getSignedUrl fails
                /\ Called(r, <<"getSignedUrl">>)
                /\ Respond(r, ErrorHandler(UpstreamError))
                /\ UNCHANGED <<table, shareUpdates>>
             \/ \* the update fails
                /\ Called(r, <<"getSignedUrl", "ddb.Update">>)
                /\ Respond(r, ErrorHandler(UpstreamError))
                /\ UNCHANGED <<table, shareUpdates>>
             \/ /\ Called(r, <<"getSignedUrl", "ddb.Update">>)
                /\ table' = ddbSet(fileId, [downloadCount |-> incrementedCount(fileId, meta)])
                /\ shareUpdates' = [shareUpdates EXCEPT ![fileId] = @ + 1]
                /\ Await(r, "update",
                     [fileId |-> fileId,
                      seen |-> meta.Item.downloadCount,
                      downloadUrl |-> [method |-> "GET", Bucket |-> meta.Item.s3Bucket,
                                       Key |-> meta.Item.s3Key,
                                       filename |-> meta.Item.originalFilename,
                                       expiresIn |-> PRESIGN_EXPIRES_SECONDS]])
  /\ UNCHANGED <<objects, now, fresh, uploadUrls, op, req, afterOk, afterFail, completedOk,
                 headFailed>>

\* the update has returned: res.json
ShareRespond(r) ==
  /\ Resume(r, "share", "update")
  /\ Respond(r, [status |-> 200,
                 body |-> [fileId |-> locals[r].fileId,
                           downloadUrl |-> locals[r].downloadUrl,
                           expiresAt |-> expiresAtOf(now)]])
  /\ now' = Elapsed
  /\ UNCHANGED <<table, objects, fresh, uploadUrls, op, req, calls, afterOk, afterFail,
                 shareUpdates, completedOk, headFailed>>

-----------------------------------------------------------------------------
(* Environment *)

\* a client PUTs an object through an upload URL it was given
Upload(url, head) ==
  /\ Quiet
  /\ url \in uploadUrls
  /\ objects' = (url.Key :> head) @@ objects
  /\ objects' # objects
  /\ UNCHANGED <<table, now, fresh, uploadUrls, reqVars, shareUpdates, completedOk, headFailed>>

\* the in-flight requests without request r, in arrival order
Without(r, f, blank) ==
  [q \in Reqs |-> IF q < r THEN f[q] ELSE IF q + 1 \in Reqs THEN f[q + 1] ELSE blank]

\* the handler returns after sending its response: the request is over
Finish(r) ==
  /\ pc[r] = "done"
  /\ pc' = Without(r, pc, "idle")
  /\ op' = Without(r, op, "none")
  /\ req' = Without(r, req, NoRequest)
  /\ locals' = Without(r, locals, <<>>)
  /\ res' = Without(r, res, NoResponse)
  /\ calls' = Without(r, calls, <<>>)
  /\ afterOk' = Without(r, afterOk, FALSE)
  /\ afterFail' = Without(r, afterFail, FALSE)
  /\ UNCHANGED <<table, objects, now, fresh, uploadUrls, shareUpdates, completedOk, headFailed>>

-----------------------------------------------------------------------------
Next ==
  \/ \E r \in Reqs, err \in BodyParserErrors : JsonBodyError(r, err)
  \/ \E r \in Reqs, fn \in FilenameInputs, ct \in ContentTypeInputs :
       PresignPut(r, [originalFilename |-> fn, contentType |-> ct])
  \/ \E r \in Reqs : PresignRespond(r)
  \/ \E r \in Reqs, id \in FileIdInputs : CompleteGet(r, [fileId |-> id])
  \/ \E r \in Reqs : CompleteHead(r)
  \/ \E r \in Reqs : CompleteUpdate(r)
  \/ \E r \in Reqs : CompleteRespond(r)
  \/ \E r \in Reqs, id \in FileIdInputs : MetadataGet(r, [fileId |-> id])
  \/ \E r \in Reqs : MetadataRespond(r)
  \/ \E r \in Reqs, id \in FileIdInputs : ShareGet(r, [fileId |-> id])
  \/ \E r \in Reqs : ShareUpdate(r)
  \/ \E r \in Reqs : ShareRespond(r)
  \/ \E url \in uploadUrls, head \in ObjectHeads : Upload(url, head)
  \/ \E r \in Reqs : Finish(r)

Spec == Init /\ [][Next]_vars

\* the same server, with more identifiers and only presign-upload and get-metadata requests
InitCreate ==
  /\ table = <<>>
  /\ objects = <<>>
  /\ now = 0
  /\ fresh = IdsUpTo(MaxCreated)
  /\ uploadUrls = {}
  /\ pc = [r \in Reqs |-> "idle"]
  /\ op = [r \in Reqs |-> "none"]
  /\ req = [r \in Reqs |-> NoRequest]
  /\ locals = [r \in Reqs |-> <<>>]
  /\ res = [r \in Reqs |-> NoResponse]
  /\ calls = [r \in Reqs |-> <<>>]
  /\ afterOk = [r \in Reqs |-> FALSE]
  /\ afterFail = [r \in Reqs |-> FALSE]
  /\ shareUpdates = [f \in FileIds |-> 0]
  /\ completedOk = {}
  /\ headFailed = {}

NextCreate ==
  \/ \E r \in Reqs, fn \in FilenameInputs \cup BlankValues,
          ct \in ContentTypeInputs \cup BlankValues :
       PresignPut(r, [originalFilename |-> fn, contentType |-> ct])
  \/ \E r \in Reqs : PresignRespond(r)
  \/ \E r \in Reqs, id \in FileIdInputs : MetadataGet(r, [fileId |-> id])
  \/ \E r \in Reqs : MetadataRespond(r)
  \/ \E r \in Reqs : Finish(r)

SpecCreate == InitCreate /\ [][NextCreate]_vars

\* the steps of request r after its first: each is the continuation of an await
Continue(r) ==
  \/ PresignRespond(r)
  \/ CompleteHead(r)
  \/ CompleteUpdate(r)
  \/ CompleteRespond(r)
  \/ MetadataRespond(r)
  \/ ShareUpdate(r)
  \/ ShareRespond(r)

\* every store call returns and the event loop runs every continuation that is ready:
\* a continuation is held back only while another handler finishes its turn
SpecLive ==
  /\ Spec
  /\ \A r \in Reqs : SF_vars(Continue(r))
  /\ \A r \in Reqs : WF_vars(Finish(r))

\* the same server with presign-upload requests only, over many file names
NextNames ==
  \/ \E r \in Reqs, fn \in NameInputs :
       PresignPut(r, [originalFilename |-> fn, contentType |-> NameContentType])
  \/ \E r \in Reqs : PresignRespond(r)
  \/ \E r \in Reqs : Finish(r)

SpecNames == Init /\ [][NextNames]_vars

-----------------------------------------------------------------------------
(* Vocabulary of the properties *)

\* request r takes a step of the handler of route, from one suspension point to another
Step(r, route, from, to) ==
  /\ Quiet
  /\ op'[r] = route
  /\ pc[r] = from
  /\ pc'[r] = to

\* request r takes some step of the handler of route
Moves(r, route) == Quiet /\ op'[r] = route /\ pc'[r] # pc[r]

Ready(f) == Present(f) /\ statusOf(table[f]) = "READY"
Uploading(f) == Present(f) /\ statusOf(table[f]) = "UPLOADING"

UpstreamFailure == ErrorHandler(UpstreamError)

-----------------------------------------------------------------------------
(* C1 *)

\* C1: a record is never removed and its status changes only from UPLOADING to
\* READY, and only in the update step of a complete request for its fileId.
C1_StatusOnlyUploadingToReady ==
  [][\A f \in FileIds :
       Present(f) =>
         /\ f \in DOMAIN table'
         /\ statusOf(table'[f]) # statusOf(table[f]) =>
              /\ statusOf(table[f]) = "UPLOADING"
              /\ statusOf(table'[f]) = "READY"
              /\ \E r \in Reqs : /\ Step(r, "complete", "head", "update")
                                 /\ locals[r].fileId = f]_vars

\* a complete request has applied its update and the record is READY
C1_Witness ==
  \E r \in Reqs : op[r] = "complete" /\ pc[r] = "update" /\ Ready(locals[r].fileId)

-----------------------------------------------------------------------------
(* C2 *)

\* C2: a share request goes on to its update only when the item it read exists and
\* is READY, and whenever a share request has passed that check or has sent a 200
\* response, the record of its fileId is (still) stored and READY.
C2_ShareOnlyReady ==
  [][/\ \A r \in Reqs :
          Step(r, "share", "get", "update") =>
            HasItem(locals[r].meta) /\ statusOf(locals[r].meta.Item) = "READY"
     /\ \A r \in Reqs :
          op'[r] = "share" =>
            /\ pc'[r] = "update" => (locals'[r].fileId \in DOMAIN table'
                                     /\ statusOf(table'[locals'[r].fileId]) = "READY")
            /\ (pc'[r] = "done" /\ res'[r].status = 200) =>
                 (res'[r].body.fileId \in DOMAIN table'
                  /\ statusOf(table'[res'[r].body.fileId]) = "READY")]_vars

\* a share request has sent a 200 response with a download URL
C2_Witness ==
  \E r \in Reqs : /\ op[r] = "share" /\ pc[r] = "done" /\ res[r].status = 200
                  /\ res[r].body.downloadUrl.method = "GET"

-----------------------------------------------------------------------------
(* C3 *)

\* C3: the update step of a share request raises downloadCount of its record by
\* exactly 1 whatever the request had read; downloadCount always equals the number of
\* share requests that have executed their update on the record; and a 200 share
\* response is sent only after the request's update, without touching the table.
C3_ShareCountsExactly ==
  [][/\ \A r \in Reqs :
          Step(r, "share", "get", "update") =>
            LET f == locals[r].fileId
            IN /\ Present(f)
               /\ table' = [table EXCEPT ![f].downloadCount = @ + 1]
     /\ \A f \in DOMAIN table' : table'[f].downloadCount = shareUpdates'[f]
     /\ \A r \in Reqs :
          Step(r, "share", "update", "done") =>
            /\ res'[r].status = 200
            /\ calls[r] = <<"ddb.Get", "getSignedUrl", "ddb.Update">>
            /\ table' = table
            /\ table[locals[r].fileId].downloadCount >= 1]_vars

\* two share requests read the record before either updated it, and both updates
\* have been applied
C3_Witness ==
  \E r1, r2 \in Reqs :
    /\ r1 # r2
    /\ op[r1] = "share" /\ pc[r1] = "update"
    /\ op[r2] = "share" /\ pc[r2] = "update"
    /\ locals[r1].fileId = locals[r2].fileId
    /\ locals[r1].seen = 0 /\ locals[r2].seen = 0
    /\ table[locals[r1].fileId].downloadCount = 2

-----------------------------------------------------------------------------
(* C4 *)

\* C4: once a complete request for a fileId has responded 200 the record is READY
\* and stays so, and a complete request for that fileId that arrives afterwards issues
\* no call but its read, changes nothing in the table, and (its read having succeeded)
\* responds 400 "invalid status: READY".
C4_SecondCompleteRejected ==
  [][/\ \A f \in completedOk' : f \in DOMAIN table' /\ statusOf(table'[f]) = "READY"
     /\ \A r \in Reqs :
          (op'[r] = "complete" /\ afterOk'[r]) =>
            /\ pc'[r] \in {"get", "done"}
            /\ calls'[r] = <<"ddb.Get">>
            /\ Moves(r, "complete") => table' = table
            /\ (pc'[r] = "done" /\ res'[r] # UpstreamFailure) =>
                 res'[r] = [status |-> 400, body |-> [error |-> "invalid status: READY"]]]_vars

\* the second of two complete requests run one after the other has been refused,
\* the object being in the object store
C4_Witness ==
  \E r \in Reqs :
    /\ op[r] = "complete" /\ afterOk[r] /\ pc[r] = "done" /\ res[r].status = 400
    /\ \E f \in completedOk : table[f].s3Key \in DOMAIN objects

-----------------------------------------------------------------------------
(* C5 *)

\* the sizeBytes attribute of the record of f: <<>> when there is none
sizeBytesOf(tbl, f) ==
  IF f \in DOMAIN tbl /\ "sizeBytes" \in DOMAIN tbl[f] THEN <<tbl[f].sizeBytes>> ELSE <<>>

\* C5: a record in status UPLOADING has no sizeBytes attribute, and sizeBytes is
\* written only by the update step of a complete request for the record, the step
\* that leaves the record READY.
C5_SizeOnlyAtCompletion ==
  [][/\ \A f \in DOMAIN table' :
          statusOf(table'[f]) = "UPLOADING" => "sizeBytes" \notin DOMAIN table'[f]
     /\ \A f \in FileIds :
          sizeBytesOf(table', f) # sizeBytesOf(table, f) =>
            /\ statusOf(table'[f]) = "READY"
            /\ \E r \in Reqs : /\ Step(r, "complete", "head", "update")
                               /\ locals[r].fileId = f]_vars

\* a completed record carries the size the object store reported
C5_Witness ==
  \E f \in DOMAIN table : Ready(f) /\ sizeBytesOf(table, f) = <<Num(0)>>

-----------------------------------------------------------------------------
(* C6 *)

\* C6: the put step of a presign-upload request uses a fileId under which nothing is
\* stored, adds exactly that one record, with status UPLOADING and downloadCount 0,
\* and leaves every stored record as it was; the 200 response that follows names
\* that fileId and changes nothing in the table.
C6_PresignCreatesFreshRecord ==
  [][/\ \A r \in Reqs :
          Step(r, "presign", "idle", "put") =>
            LET f == locals'[r].fileId
            IN /\ f \notin DOMAIN table
               /\ DOMAIN table' = DOMAIN table \cup {f}
               /\ table'[f].fileId = f
               /\ table'[f].status = "UPLOADING"
               /\ table'[f].downloadCount = 0
               /\ \A g \in DOMAIN table : table'[g] = table[g]
     /\ \A r \in Reqs :
          Step(r, "presign", "put", "done") =>
            /\ res'[r].status = 200
            /\ res'[r].body.fileId = locals[r].fileId
            /\ Uploading(locals[r].fileId)
            /\ table' = table]_vars

\* a second presign-upload request has succeeded next to an earlier record
C6_Witness ==
  \E r \in Reqs :
    /\ op[r] = "presign" /\ pc[r] = "done" /\ res[r].status = 200
    /\ Cardinality(DOMAIN table) = 2

-----------------------------------------------------------------------------
(* C7 *)

\* the update of complete request r is applied
CompleteUpdateApplied(r) == CompleteUpdate(r) /\ pc'[r] = "update"

\* C7: a complete request that has passed its status check can apply its update
\* whatever the status of the record has become in the meantime.
C7_UpdateNotConditioned ==
  \A r \in Reqs :
    (Quiet /\ op[r] = "complete" /\ pc[r] = "head") => ENABLED CompleteUpdateApplied(r)

\* two complete requests for one fileId have both applied their update: one has
\* responded 200 and the other is about to
C7_Witness ==
  \E r1, r2 \in Reqs :
    /\ op[r1] = "complete" /\ pc[r1] = "done" /\ res[r1].status = 200
    /\ op[r2] = "complete" /\ pc[r2] = "update"
    /\ locals[r2].fileId = res[r1].body.fileId
    /\ ~afterOk[r1] /\ ~afterOk[r2]

-----------------------------------------------------------------------------
(* C8 *)

\* C8: a share request that read a record in status UPLOADING responds 400
\* "not ready: UPLOADING", having issued no call but its read, and leaves the table
\* unchanged.
C8_ShareOfUploadingRefused ==
  [][\A r \in Reqs :
       (/\ Moves(r, "share")
        /\ pc[r] = "get"
        /\ HasItem(locals[r].meta)
        /\ statusOf(locals[r].meta.Item) = "UPLOADING") =>
         /\ pc'[r] = "done"
         /\ res'[r] = [status |-> 400, body |-> [error |-> "not ready: UPLOADING"]]
         /\ calls'[r] = <<"ddb.Get">>
         /\ table' = table]_vars

\* a share request has been refused for a record that is still UPLOADING
C8_Witness ==
  \E r \in Reqs, f \in DOMAIN table :
    /\ op[r] = "share" /\ pc[r] = "done"
    /\ res[r] = [status |-> 400, body |-> [error |-> "not ready: UPLOADING"]]
    /\ Uploading(f) /\ table[f].downloadCount = 0

-----------------------------------------------------------------------------
(* C9 *)

\* C9: a complete or share request for a fileId without a record reads no item,
\* responds 404 having issued no call but its read, and leaves the table unchanged;
\* the set of stored fileIds changes only in the put step of presign-upload.
C9_MissingRecordIs404 ==
  [][/\ \A r \in Reqs : \A route \in {"complete", "share"} :
          /\ (Step(r, route, "idle", "get") /\ locals'[r].fileId \notin DOMAIN table) =>
               ~HasItem(locals'[r].meta) /\ table' = table
          /\ (Moves(r, route) /\ pc[r] = "get" /\ ~HasItem(locals[r].meta)) =>
               /\ pc'[r] = "done"
               /\ res'[r].status = 404
               /\ calls'[r] = <<"ddb.Get">>
               /\ table' = table
     /\ DOMAIN table' # DOMAIN table =>
          \E r \in Reqs : Step(r, "presign", "idle", "put")]_vars

\* a complete request for a fileId without a record has responded 404
C9_Witness ==
  \E r \in Reqs :
    /\ op[r] = "complete" /\ pc[r] = "done"
    /\ res[r] = [status |-> 404, body |-> [error |-> "fileId not found"]]

-----------------------------------------------------------------------------
(* C10 *)

\* C10: no step of a get-metadata request changes the table or the object store;
\* its read yields the stored record, or no item when there is none; it responds 200
\* with exactly the item it read, and 404 when it read none.
C10_MetadataReadsOnly ==
  [][\A r \in Reqs :
       /\ Moves(r, "metadata") => (table' = table /\ objects' = objects)
       /\ Step(r, "metadata", "idle", "get") =>
            LET f == locals'[r].fileId
                meta == locals'[r].meta
            IN IF Present(f) THEN HasItem(meta) /\ meta.Item = table[f] ELSE ~HasItem(meta)
       /\ Step(r, "metadata", "get", "done") =>
            IF HasItem(locals[r].meta)
            THEN res'[r] = [status |-> 200, body |-> locals[r].meta.Item]
            ELSE res'[r].status = 404]_vars

\* a get-metadata request has responded with the record as it was when read,
\* the record having been completed in the meantime
C10_Witness ==
  \E r \in Reqs :
    /\ op[r] = "metadata" /\ pc[r] = "done" /\ res[r].status = 200
    /\ res[r].body.status = "UPLOADING"
    /\ Ready(res[r].body.fileId)

-----------------------------------------------------------------------------
(* C11 *)

\* the file name segment of the storage key of a record: what follows uploads/<fileId>/
segmentOf(item) == SubSeq(item.s3Key, Len(item.fileId) + 4, Len(item.s3Key))

\* the characters of name up to position i that start a piece of the segment: the safe
\* ones, and the first of each run of unsafe ones
pieceOf(name, i) ==
  Cardinality({j \in 1..i : name[j] \in SafeChars \/ j = 1 \/ name[j - 1] \in SafeChars})

\* C11 as stated: the segment is the trimmed originalFilename with every character
\* outside [A-Za-z0-9_.-] replaced one for one by "_", so it has the length of the
\* name; "my file (1).pdf" gives "my_file__1_.pdf".
C11_SegmentOneForOne ==
  \A f \in DOMAIN table :
    LET name == table[f].originalFilename
        seg == segmentOf(table[f])
    IN /\ Len(seg) = Len(name)
       /\ \A i \in 1..Len(name) : seg[i] = IF name[i] \in SafeChars THEN name[i] ELSE "_"
       /\ name = ExampleFilename =>
            seg = <<"m", "y", "_", "f", "i", "l", "e", "_", "_", "1", "_", ".", "p", "d", "f">>

\* C11, amended: the stored originalFilename is trimmed and the segment is that name
\* with every maximal run of characters outside [A-Za-z0-9_.-] replaced by one "_"
\* and every other character unchanged, so it is never longer than the name;
\* "my file (1).pdf" gives "my_file_1_.pdf".
C11_SegmentRunsCollapsed ==
  \A f \in DOMAIN table :
    LET name == table[f].originalFilename
        seg == segmentOf(table[f])
    IN /\ name # <<>> /\ name[1] \notin Whitespace /\ name[Len(name)] \notin Whitespace
       /\ Len(seg) = pieceOf(name, Len(name))
       /\ Len(seg) <= Len(name)
       /\ \A i \in 1..Len(name) :
            seg[pieceOf(name, i)] = IF name[i] \in SafeChars THEN name[i] ELSE "_"
       /\ name = ExampleFilename =>
            seg = <<"m", "y", "_", "f", "i", "l", "e", "_", "1", "_", ".", "p", "d", "f">>

\* the record of "my file (1).pdf" is stored, its segment one character shorter
C11_Witness ==
  \E f \in DOMAIN table :
    /\ table[f].originalFilename = ExampleFilename
    /\ Len(segmentOf(table[f])) = Len(ExampleFilename) - 1

-----------------------------------------------------------------------------
(* C12 *)

\* val is missing, not a string, empty or whitespace only
Blank(val) ==
  \/ val.type # "string"
  \/ val.str = <<>>
  \/ \A i \in 1..Len(val.str) : val.str[i] \in Whitespace

BadRequest(message) == [status |-> 400, body |-> [error |-> message]]

\* C12: a presign-upload request whose originalFilename or contentType is blank is
\* answered in its first step, without any store call and with the table, the object
\* store and the upload URLs unchanged, by 400 "originalFilename is required" when
\* the file name is blank and else 400 "contentType is required"; a request with
\* neither field blank is not answered 400.
C12_BlankFieldIs400 ==
  [][\A r \in Reqs :
       (Moves(r, "presign") /\ pc[r] = "idle") =>
         LET body == req'[r]
         IN IF Blank(body.originalFilename) \/ Blank(body.contentType)
            THEN /\ pc'[r] = "done"
                 /\ res'[r] = IF Blank(body.originalFilename)
                              THEN BadRequest("originalFilename is required")
                              ELSE BadRequest("contentType is required")
                 /\ calls'[r] = <<>>
                 /\ table' = table /\ objects' = objects /\ uploadUrls' = uploadUrls
            ELSE pc'[r] = "done" => res'[r].status # 400]_vars

\* a request with a whitespace-only file name and a non-string contentType has been
\* refused for its file name, next to a stored record
C12_Witness ==
  \E r \in Reqs :
    /\ op[r] = "presign" /\ pc[r] = "done"
    /\ req[r] = [originalFilename |-> Str(<<" ">>), contentType |-> Num(1)]
    /\ res[r] = BadRequest("originalFilename is required")
    /\ table # <<>>

-----------------------------------------------------------------------------
(* C13 *)

ErrorResponse(r) == pc[r] = "done" /\ res[r].status # 200

\* C13 as stated: every error response has a body {"error": message} and status 400,
\* 404 or 500.
C13_ErrorStatus400_404_500 ==
  \A r \in Reqs :
    ErrorResponse(r) => /\ DOMAIN res[r].body = {"error"}
                        /\ res[r].status \in {400, 404, 500}

\* C13, amended: every error response has a body {"error": message} with a non-empty
\* message; the status is 400, 404 or 500 when a route handler ran (404 only when the
\* read found no record, 500 exactly for a failed store call), and for a request
\* whose body could not be parsed it is the status code the parser's error carries:
\* 400, 413 or 415.
C13_ErrorStatusCarried ==
  \A r \in Reqs :
    ErrorResponse(r) =>
      /\ DOMAIN res[r].body = {"error"}
      /\ res[r].body.error # ""
      /\ IF op[r] = "express.json"
         THEN res[r].status \in {400, 413, 415} /\ calls[r] = <<>>
         ELSE /\ res[r].status \in {400, 404, 500}
              /\ res[r].status = 404 => calls[r] = <<"ddb.Get">> /\ op[r] # "presign"
              /\ res[r].status = 500 <=> res[r] = UpstreamFailure
              /\ res[r].status = 500 => calls[r] # <<>>

\* a request with a body over the parser's limit has been answered 413
C13_Witness ==
  \E r \in Reqs : /\ op[r] = "express.json" /\ pc[r] = "done"
                  /\ res[r] = [status |-> 413, body |-> [error |-> "request entity too large"]]

-----------------------------------------------------------------------------
(* C14 *)

\* attribute k of the record of f: <<>> when there is none
attrOf(tbl, f, k) == IF k \in DOMAIN tbl[f] THEN <<tbl[f][k]>> ELSE <<>>

CreationFields == {"fileId", "s3Bucket", "s3Key", "originalFilename", "createdAt", "expiresAt"}
CompletionFields == {"status", "sizeBytes", "contentType"}

\* C14: in every step, a stored record keeps its fileId, s3Bucket, s3Key,
\* originalFilename, createdAt and expiresAt and loses no attribute; status, sizeBytes
\* or contentType change only in the update step of a complete request for the
\* record, which leaves downloadCount as it is; downloadCount changes only in the
\* update step of a share request for the record, which leaves status, sizeBytes and
\* contentType as they are.
C14_OnlyCompletionAndCountChange ==
  [][\A f \in DOMAIN table :
       /\ f \in DOMAIN table'
       /\ DOMAIN table[f] \subseteq DOMAIN table'[f]
       /\ CreationFields \subseteq DOMAIN table[f]
       /\ \A k \in CreationFields : table'[f][k] = table[f][k]
       /\ (\E k \in CompletionFields : attrOf(table', f, k) # attrOf(table, f, k)) =>
            /\ \E r \in Reqs : Step(r, "complete", "head", "update") /\ locals[r].fileId = f
            /\ table'[f].downloadCount = table[f].downloadCount
       /\ table'[f].downloadCount # table[f].downloadCount =>
            /\ \E r \in Reqs : Step(r, "share", "get", "update") /\ locals[r].fileId = f
            /\ \A k \in CompletionFields : attrOf(table', f, k) = attrOf(table, f, k)
       /\ \A r \in Reqs :
            (Moves(r, "complete") /\ pc[r] # "idle" /\ locals[r].fileId = f) =>
              table'[f].downloadCount = table[f].downloadCount
       /\ \A r \in Reqs :
            (Moves(r, "share") /\ pc[r] # "idle" /\ locals[r].fileId = f) =>
              \A k \in CompletionFields : attrOf(table', f, k) = attrOf(table, f, k)]_vars

\* a complete request and a share request have both applied their update to one
\* record, the complete request after the share request had read the record
C14_Witness ==
  \E r1, r2 \in Reqs :
    /\ op[r1] = "complete" /\ pc[r1] = "update"
    /\ op[r2] = "share" /\ pc[r2] = "update"
    /\ locals[r1].fileId = locals[r2].fileId
    /\ table[locals[r1].fileId].downloadCount = 1
    /\ table[locals[r1].fileId].originalFilename = <<"a", " ", "(", "b">>

-----------------------------------------------------------------------------
(* C15 *)

\* complete request r, suspended on its read, has a record in status UPLOADING in hand:
\* its next step issues the head call
AboutToHead(r) ==
  /\ Quiet /\ op[r] = "complete" /\ pc[r] = "get"
  /\ HasItem(locals[r].meta) /\ statusOf(locals[r].meta.Item) = "UPLOADING"

\* C15: the head call of a complete request fails whenever the object is absent; when
\* it fails, the request ends in that step with the 500 response of the error
\* responder, has issued its read and the head call and no update, and leaves the
\* table and the object store unchanged; a record that was UPLOADING at a failed head
\* call is UPLOADING without sizeBytes until a complete request applies its update.
C15_HeadFailureLeavesRecord ==
  [][/\ \A r \in Reqs :
          (AboutToHead(r) /\ pc'[r] # pc[r]) =>
            /\ locals[r].meta.Item.s3Key \notin DOMAIN objects => pc'[r] = "done"
            /\ pc'[r] = "done" =>
                 /\ res'[r] = [status |-> 500, body |-> [error |-> UpstreamError.message]]
                 /\ calls'[r] = <<"ddb.Get", "s3.Head">>
                 /\ table' = table
                 /\ objects' = objects
                 /\ Uploading(locals[r].fileId) => locals[r].fileId \in headFailed'
     /\ \A f \in headFailed' :
          /\ f \in DOMAIN table'
          /\ statusOf(table'[f]) = "UPLOADING"
          /\ "sizeBytes" \notin DOMAIN table'[f]
     /\ \A f \in headFailed \ headFailed' :
          \E r \in Reqs : Step(r, "complete", "head", "update") /\ locals[r].fileId = f]_vars

\* a complete request that arrived after a failed head call for its fileId has
\* responded 200
C15_Witness ==
  \E r \in Reqs :
    /\ op[r] = "complete" /\ afterFail[r] /\ pc[r] = "done" /\ res[r].status = 200
    /\ Ready(res[r].body.fileId)

-----------------------------------------------------------------------------
(* C16 *)

\* C16: a presign-upload request calls getSignedUrl before the PutCommand and nothing
\* else; when getSignedUrl fails the request ends without a PutCommand and the table is
\* unchanged; every stored record has the key of an upload URL that was signed, by a
\* request still suspended on its put or already answered 200; and a 200 response
\* names a fileId whose record, with the key answered, is in the table.
C16_RecordOnlyAfterSigning ==
  [][/\ \A r \in Reqs :
          (Moves(r, "presign") /\ pc[r] = "idle") =>
            /\ calls'[r] \in {<<>>, <<"getSignedUrl">>, <<"getSignedUrl", "ddb.Put">>}
            /\ calls'[r] # <<"getSignedUrl", "ddb.Put">> => (pc'[r] = "done" /\ table' = table)
            /\ pc'[r] = "put" => locals'[r].uploadUrl.Key = table'[locals'[r].fileId].s3Key
     /\ \A f \in DOMAIN table' :
          \/ \E url \in uploadUrls' : url.Key = table'[f].s3Key
          \/ \E r \in Reqs : /\ op'[r] = "presign" /\ pc'[r] = "put"
                              /\ locals'[r].fileId = f
                              /\ locals'[r].uploadUrl.Key = table'[f].s3Key
     /\ \A r \in Reqs :
          (Moves(r, "presign") /\ pc'[r] = "done" /\ res'[r].status = 200) =>
            /\ pc[r] = "put"
            /\ calls[r] = <<"getSignedUrl", "ddb.Put">>
            /\ res'[r].body.fileId \in DOMAIN table
            /\ table[res'[r].body.fileId].s3Key = res'[r].body.s3Key
            /\ res'[r].body.uploadUrl.Key = res'[r].body.s3Key]_vars

\* a request whose URL signing failed has been answered 500 and has left no record,
\* next to the record of an earlier request
C16_Witness ==
  \E r \in Reqs :
    /\ op[r] = "presign" /\ pc[r] = "done" /\ calls[r] = <<"getSignedUrl">>
    /\ res[r].status = 500
    /\ Cardinality(IdsUpTo(MaxCreated) \ fresh) = 2
    /\ Cardinality(DOMAIN table) = 1

-----------------------------------------------------------------------------
(* C17 *)

\* C17: the head of a complete request is what the object store holds under the
\* record's key; the request's update makes the record READY with sizeBytes the
\* reported size, null when none is reported, and contentType the reported content
\* type, or when none is reported the contentType of the item the request read (the
\* stored one while the record is UPLOADING); the 200 response carries the values that
\* update wrote.
C17_SizeAndTypeFromHead ==
  [][\A r \in Reqs :
       /\ Step(r, "complete", "get", "head") =>
            /\ locals[r].meta.Item.s3Key = table[locals[r].fileId].s3Key
            /\ locals[r].meta.Item.s3Bucket = table[locals[r].fileId].s3Bucket
            /\ locals'[r].head = objects[table[locals[r].fileId].s3Key]
       /\ Step(r, "complete", "head", "update") =>
            LET f == locals[r].fileId
                head == locals[r].head
                read == locals[r].meta.Item
            IN /\ table'[f].status = "READY"
               /\ table'[f].sizeBytes =
                    IF head.ContentLength.type = "number" THEN head.ContentLength ELSE Null
               /\ table'[f].contentType =
                    IF head.ContentType.type = "string" THEN head.ContentType
                    ELSE read.contentType
               /\ Uploading(f) => read.contentType = table[f].contentType
               /\ locals'[r].sizeBytes = table'[f].sizeBytes
               /\ locals'[r].storedContentType = table'[f].contentType
       /\ Step(r, "complete", "update", "done") =>
            /\ res'[r].status = 200
            /\ res'[r].body = [ok |-> TRUE, fileId |-> locals[r].fileId,
                               sizeBytes |-> locals[r].sizeBytes,
                               contentType |-> locals[r].storedContentType]]_vars

\* a complete request for an object with no reported size or type has responded with
\* a null size and the declared content type, which the record carries
C17_Witness ==
  \E r \in Reqs :
    /\ op[r] = "complete" /\ pc[r] = "done" /\ res[r].status = 200
    /\ res[r].body.sizeBytes = Null
    /\ res[r].body.contentType = Str(<<"a">>)
    /\ table[res[r].body.fileId].sizeBytes = Null
    /\ table[res[r].body.fileId].contentType = Str(<<"a">>)

-----------------------------------------------------------------------------
(* C18 *)

\* sizeBytes or contentType of the record of f differ between this state and the next
SizeOrTypeModified(f) ==
  \/ attrOf(table', f, "sizeBytes") # attrOf(table, f, "sizeBytes")
  \/ attrOf(table', f, "contentType") # attrOf(table, f, "contentType")

\* complete request r is past its read with an item in status UPLOADING in hand
HoldsUploading(r, f) ==
  /\ op[r] = "complete" /\ pc[r] \in {"get", "head"}
  /\ locals[r].fileId = f
  /\ HasItem(locals[r].meta) /\ statusOf(locals[r].meta.Item) = "UPLOADING"

\* the record of f is READY and no complete request still holds it as UPLOADING
Settled(f) == Ready(f) /\ \A r \in Reqs : ~HoldsUploading(r, f)

\* C18 as stated: once a record is READY, no step modifies its sizeBytes or
\* contentType.
C18_ReadyNeverModified ==
  [][\A f \in DOMAIN table : Ready(f) => ~SizeOrTypeModified(f)]_vars

\* C18, amended: once a record is READY its sizeBytes and contentType are modified
\* only by the update of a complete request that had read the record while it was
\* UPLOADING; once no such request is in flight none ever is again, and sizeBytes and
\* contentType are never modified again.
C18_ReadyModifiedOnlyByRacingComplete ==
  [][\A f \in DOMAIN table :
       /\ (Ready(f) /\ SizeOrTypeModified(f)) =>
            \E r \in Reqs : /\ Step(r, "complete", "head", "update")
                            /\ HoldsUploading(r, f)
                            /\ ~afterOk[r]
       /\ Settled(f) =>
            /\ ~SizeOrTypeModified(f)
            /\ Ready(f)'
            /\ \A r \in Reqs : ~HoldsUploading(r, f)']_vars

\* two complete requests for one record have applied their updates, the object
\* having been replaced between their head calls: the record no longer has the size
\* the first one wrote
C18_Witness ==
  \E r1, r2 \in Reqs :
    /\ op[r1] = "complete" /\ pc[r1] = "update"
    /\ op[r2] = "complete" /\ pc[r2] = "update"
    /\ locals[r1].fileId = locals[r2].fileId
    /\ locals[r1].sizeBytes # table[locals[r1].fileId].sizeBytes
    /\ locals[r2].sizeBytes = table[locals[r1].fileId].sizeBytes

-----------------------------------------------------------------------------
(* C19 *)

\* C19: downloadCount of every record is a natural number that no step decreases; a
\* record with a positive downloadCount is READY; and the update of a share request
\* is applied to a record that is stored and READY at that moment.
C19_CountOnlyOnReady ==
  [][/\ \A f \in DOMAIN table' :
          /\ table'[f].downloadCount \in Nat
          /\ f \in DOMAIN table => table'[f].downloadCount >= table[f].downloadCount
          /\ table'[f].downloadCount > 0 => statusOf(table'[f]) = "READY"
     /\ \A r \in Reqs :
          Step(r, "share", "get", "update") => Ready(locals[r].fileId)
     /\ \A f \in FileIds :
          (~Present(f) \/ Uploading(f)) =>
            (f \in DOMAIN table' => table'[f].downloadCount = 0)]_vars

\* a record has been shared while a complete request that read it as UPLOADING is
\* still in flight
C19_Witness ==
  \E r \in Reqs, f \in DOMAIN table :
    /\ HoldsUploading(r, f)
    /\ table[f].downloadCount >= 1
    /\ Ready(f)

-----------------------------------------------------------------------------
(* C20 *)

InFlight(r) == pc[r] \notin {"idle", "done"}

\* a request is answered at most once: a response is sent by a request that has none
\* yet, in the step that ends its handler, and after it the request only leaves
SingleResponse ==
  \A r \in Reqs :
    /\ (Quiet /\ res'[r] # res[r]) =>
         /\ res[r] = NoResponse
         /\ pc'[r] = "done"
         /\ res'[r].status \in {200, 400, 404, 413, 415, 500}
    /\ (Quiet /\ pc'[r] = "done") => res'[r] # NoResponse
    /\ (res[r] = NoResponse /\ pc[r] # "done") \/ (res[r] # NoResponse /\ pc[r] = "done")
    /\ pc[r] = "done" =>
         /\ \A q \in Reqs : q < r => (pc'[q] = pc[q] /\ res'[q] = res[q])
         /\ \A q \in Reqs : (q >= r /\ q + 1 \in Reqs) =>
                               (pc'[q] = pc[q + 1] /\ res'[q] = res[q + 1])
         /\ \A q \in Reqs : q + 1 \notin Reqs => (pc'[q] = "idle" /\ res'[q] = NoResponse)

\* C20: every request is answered exactly once.  No step sends a second response;
\* and a request in flight is eventually answered: the requests in flight being kept
\* in arrival order, either the request in position r or one that arrived before it
\* is answered, and the request then moves up or is the one answered.
C20_ExactlyOneResponse ==
  /\ [][SingleResponse]_vars
  /\ \A r \in Reqs : InFlight(r) ~> (\E q \in 1..r : pc[q] = "done")

\* a complete request whose update failed after its read and head call has been
\* answered by the error responder
C20_Witness ==
  \E r \in Reqs :
    /\ op[r] = "complete" /\ pc[r] = "done"
    /\ calls[r] = <<"ddb.Get", "s3.Head", "ddb.Update">>
    /\ res[r] = UpstreamFailure

====
